---- MODULE Spec2Model ----
(***************************************************************************)
(* Wave Function Collapse generator ("Claude opus 4.1/Python/main.py").    *)
(*                                                                         *)
(* The model follows the Python source: Tile, Cell, WFCGenerator and the   *)
(* module-level random generator that every WFCGenerator shares.           *)
(*                                                                         *)
(* Numbers.  random.random() returns u / RandMod for an integer u in       *)
(* 0 .. RandMod-1.  Entropies are integers in micro-bits (10^-6 bit), so   *)
(* the tie-breaking jitter random.random() * 0.0001 is (u * 100) \div      *)
(* RandMod micro-bits.  Tile weights are positive integers.                *)
(***************************************************************************)
EXTENDS Integers, Sequences, FiniteSets, TLC

\* ------------------------------------------------------------------ bounds
\* a grid has at most MaxCells cells
MaxCells == 4
\* a grid whose neighbourhoods are queried directly has sides 1 .. MaxSide
MaxSide == 3
MaxTiles == 3
\* resolution of random.random(): the draws are 0/RandMod .. (RandMod-1)/RandMod
RandMod == 8
\* the integer seeds whose stream is tabulated (0 .. MaxSeed)
MaxSeed == 2
\* modulus of the tabulated pseudo-random stream
LcgModulus == 64
\* a small value of the propagation ceiling, next to the shipped default
ScaledLimit == 2
\* a grammar text has at most MaxTextLen words and line breaks
MaxTextLen == 7
\* the limits expand is called with: max_steps and max_tokens
MaxSteps == 2
MaxTokens == 2
\* an L-system has an axiom of at most MaxAxiomLen characters, rule values
\* of at most MaxRuleLen characters, and is expanded at most MaxIterations times
MaxAxiomLen == 2
MaxRuleLen == 2
MaxIterations == 2
\* a command string has at most MaxCommands characters
MaxCommands == 5

\* ------------------------------------------------------- program constants
PROPAGATION_LIMIT == 10000
\* the turning angle of the turtle, in degrees
DEFAULT_ANGLE == 90

\* ----------------------------------------------------------------- Tile
Directions == {"N", "S", "E", "W"}

\* the dict literal of Tile.can_connect
opposite == [d \in Directions |->
               CASE d = "N" -> "S" [] d = "S" -> "N" [] d = "E" -> "W" [] d = "W" -> "E"]

Tile(symbol, sockets, weight) ==
  [symbol |-> symbol, sockets |-> sockets, weight |-> weight]

\* Python's None in Cell.chosen (no tile has weight 0 or an empty symbol)
None == [symbol |-> "", sockets |-> {}, weight |-> 0]

can_connect_one_sided(self_, other, direction) == direction \in self_.sockets

can_connect_swapped(self_, other, direction) ==
  direction \in other.sockets /\ opposite[direction] \in self_.sockets

can_connect(self_, other, direction) ==
  direction \in self_.sockets /\ opposite[direction] \in other.sockets

\* Tiles of the shipped presets (get_tileset), with ASCII names for symbols:
\* MAZE wall and path, CIRCUIT horizontal, vertical and a corner.
TileUniverse ==
  << Tile("wall", {"N", "S", "E", "W"}, 2),
     Tile("path", {"N", "S", "E", "W"}, 1),
     Tile("hbar", {"E", "W"}, 2),
     Tile("vbar", {"N", "S"}, 2),
     Tile("cornerSE", {"S", "E"}, 1) >>

Range(s) == {s[i] : i \in 1..Len(s)}

\* the tile sets a generator may be built with (the empty one included, as
\* in the doctest of _get_neighbors)
TileSets == {ts \in SUBSET Range(TileUniverse) : Cardinality(ts) <= MaxTiles}

\* list(a_set_of_tiles): the iteration order of a set is fixed within one
\* process; it is taken to be the order of TileUniverse
ListOf(tiles) == SelectSeq(TileUniverse, LAMBDA t : t \in tiles)

\* ----------------------------------------------------------------- Cell
Cell(position, possibilities) ==
  [position |-> position, possibilities |-> possibilities,
   collapsed |-> FALSE, chosen |-> None]

\* round(log2(n) * 10^6) for n = 1 .. 16
Log2Micro ==
  << 0, 1000000, 1584963, 2000000, 2321928, 2584963, 2807355, 3000000,
     3169925, 3321928, 3459432, 3584963, 3700440, 3807355, 3906891, 4000000 >>

RECURSIVE SumSeq(_)
SumSeq(s) == IF s = <<>> THEN 0 ELSE Head(s) + SumSeq(Tail(s))

Weights(tiles) == [i \in 1..Len(tiles) |-> tiles[i].weight]

\* Cell.entropy draws a jitter value unless it returns 0.0 early
EntropyDraws(cell) ==
  ~(cell.collapsed \/ Cardinality(cell.possibilities) <= 1)

entropy_jitter_only(cell, u) == (u * 100) \div RandMod

\* Cell.entropy in micro-bits, for the jitter draw u.  With p = w / total,
\* -sum(p * log2 p) = log2(total) - sum(w * log2 w) / total.
entropy(cell, u) ==
  IF cell.collapsed \/ Cardinality(cell.possibilities) <= 1
  THEN 0
  ELSE LET weights == Weights(ListOf(cell.possibilities))
           total == SumSeq(weights)
           wlog == [i \in 1..Len(weights) |-> weights[i] * Log2Micro[weights[i]]]
       IN  (Log2Micro[total] - (SumSeq(wlog) \div total)) + ((u * 100) \div RandMod)

\* ------------------------------------------------------ the random module
Seeds == 0..MaxSeed
\* an integer seed outside the tabulated ones: nothing is assumed of its stream
AnySeed == MaxSeed + 1
RandVals == 0..(RandMod - 1)

RECURSIVE LcgState(_, _)
LcgState(seed, n) ==
  IF n = 0 THEN (17 * seed + 5) % LcgModulus
  ELSE (5 * LcgState(seed, n - 1) + 3) % LcgModulus

\* the (n+1)-th value random.random() returns after random.seed(seed)
StreamValue(seed, n) == (LcgState(seed, n + 1) * RandMod) \div LcgModulus

\* random.seed(seed)
random_seed(seed) == [seed |-> seed, n |-> 0]

\* u is what random.random() returns in generator state r
random_random(r, u) ==
  u \in RandVals /\ (r.seed # AnySeed => u = StreamValue(r.seed, r.n))

Advance(r) == [r EXCEPT !.n = @ + 1]

\* random.choices(tiles, weights=weights)[0] for the draw u:
\* tiles[bisect(cum_weights, random() * total, 0, n - 1)]
random_choices(tiles, weights, u) ==
  LET n == Len(tiles)
      cum == [i \in 1..n |-> SumSeq(SubSeq(weights, 1, i))]
      total == cum[n]
      below == Cardinality({i \in 1..n : cum[i] * RandMod <= u * total})
      index == IF below > n - 1 THEN n - 1 ELSE below
  IN  tiles[index + 1]

\* ---------------------------------------------------------- WFCGenerator
Gens == {1, 2}

VARIABLES
  args,    \* width, height and tile set every generator of the process gets
  limit,   \* the value of the module global PROPAGATION_LIMIT
  rng,     \* state of the module-level random generator: seed and draws since
  self,    \* self[g]: fields of generator g (width, height, tileset, grid)
  frame,   \* frame[g]: position and locals of g's generate / _propagate call
  ghost,   \* ghost[g]: the seed g was built with, and the draws g consumed
  probe,   \* arguments and results of direct calls of Tile.can_connect
  call,    \* cell and result of one direct call of _collapse_cell
  gx,      \* the grammar expander: grammar text, parsed rules, locals of expand
  ls,      \* the L-system composer: locals of expand_lsystem and trace_path
  nbr      \* arguments and results of direct calls of _get_neighbors

vars == <<args, limit, rng, self, frame, ghost, probe, call, gx, ls, nbr>>

Positions(width, height) == (0..(width - 1)) \X (0..(height - 1))

\* iteration order of self.grid (a dict filled row by row)
GridOrder(width, height) ==
  [i \in 1..(width * height) |-> <<(i - 1) % width, (i - 1) \div width>>]

_initialize_grid_transposed(width, height, tileset) ==
  [p \in Positions(height, width) |-> Cell(p, tileset)]

_initialize_grid(width, height, tileset) ==
  [p \in Positions(width, height) |-> Cell(p, tileset)]

_get_neighbors_strict(width, height, pos) ==
  LET x == pos[1]
      y == pos[2]
      directions == << <<"N", <<x, y - 1>> >>, <<"S", <<x, y + 1>> >>,
                       <<"E", <<x + 1, y>> >>, <<"W", <<x - 1, y>> >> >>
      inside(e) == /\ 0 < e[2][1] /\ e[2][1] < width
                   /\ 0 < e[2][2] /\ e[2][2] < height
  IN  SelectSeq(directions, inside)

_get_neighbors(width, height, pos) ==
  LET x == pos[1]
      y == pos[2]
      directions == << <<"N", <<x, y - 1>> >>, <<"S", <<x, y + 1>> >>,
                       <<"E", <<x + 1, y>> >>, <<"W", <<x - 1, y>> >> >>
      inside(e) == /\ 0 <= e[2][1] /\ e[2][1] < width
                   /\ 0 <= e[2][2] /\ e[2][2] < height
  IN  SelectSeq(directions, inside)

\* the set the inner loop of _propagate ranges over
CurrentTiles(cell) ==
  IF ~cell.collapsed THEN cell.possibilities ELSE {cell.chosen}

ValidTilesUnfiltered(cell, neighbor, direction) == neighbor.possibilities

ValidTilesEveryTile(cell, neighbor, direction) ==
  {t \in neighbor.possibilities :
     \A c \in CurrentTiles(cell) : c # None /\ can_connect(c, t, direction)}

\* valid_tiles of _propagate
ValidTiles(cell, neighbor, direction) ==
  {t \in neighbor.possibilities :
     \E c \in CurrentTiles(cell) : c # None /\ can_connect(c, t, direction)}

CandidatesWithCollapsed(grid, width, height) ==
  SelectSeq(GridOrder(width, height),
            LAMBDA p : Cardinality(grid[p].possibilities) > 0)

CandidatesWithEmpty(grid, width, height) ==
  SelectSeq(GridOrder(width, height), LAMBDA p : ~grid[p].collapsed)

CandidatesSkipSingles(grid, width, height) ==
  SelectSeq(GridOrder(width, height),
            LAMBDA p : ~grid[p].collapsed /\ Cardinality(grid[p].possibilities) > 1)

\* candidates of _find_minimum_entropy_cell, as positions in grid order
Candidates(grid, width, height) ==
  SelectSeq(GridOrder(width, height),
            LAMBDA p : ~grid[p].collapsed /\ Cardinality(grid[p].possibilities) > 0)

CollapsedCellKeepsSet(this, cell, u) ==
  LET tiles == ListOf(cell.possibilities)
  IN  [cell EXCEPT !.chosen = random_choices(tiles, Weights(tiles), u),
                   !.collapsed = TRUE]

CollapsedCellFromTileset(this, cell, u) ==
  LET tiles == ListOf(this.tileset)
      chosen == random_choices(tiles, Weights(tiles), u)
  IN  [cell EXCEPT !.chosen = chosen, !.possibilities = {chosen},
                   !.collapsed = TRUE]

CollapsedCellNoChosen(this, cell, u) ==
  LET tiles == ListOf(cell.possibilities)
  IN  [cell EXCEPT !.possibilities = {random_choices(tiles, Weights(tiles), u)},
                   !.collapsed = TRUE]

\* the cell that this._collapse_cell(cell) leaves, for the draw u
CollapsedCell(this, cell, u) ==
  LET tiles == ListOf(cell.possibilities)
      chosen == random_choices(tiles, Weights(tiles), u)
  IN  [cell EXCEPT !.chosen = chosen, !.possibilities = {chosen},
                   !.collapsed = TRUE]

_collapse_cell_fails_on_single(cell) == Cardinality(cell.possibilities) > 1

\* what _collapse_cell(cell) returns
_collapse_cell(cell) == cell.possibilities # {}

AllCollapsedVacuous(grid) == TRUE

\* all(c.collapsed for c in self.grid.values())
AllCollapsed(grid) == \A p \in DOMAIN grid : grid[p].collapsed

\* WFCGenerator.render, as the list of lines, each a list of symbols
render(g) ==
  [y \in 1..self[g].height |->
     [x \in 1..self[g].width |->
        LET cell == self[g].grid[<<x - 1, y - 1>>]
        IN  IF cell.collapsed /\ cell.chosen # None
            THEN cell.chosen.symbol ELSE "?"]]

\* ------------------------------------------------------------ call frames
NoBest == [found |-> FALSE, pos |-> <<0, 0>>, key |-> 0]

\* locals of a generate call that is at instruction pc, outside _propagate
\* and outside min(); possible is, during a _propagate call, the sum of the
\* possibility-set sizes of the cells that were uncollapsed when it began
Frame(pc, result) ==
  [pc |-> pc, result |-> result, candidates |-> <<>>, best |-> NoBest,
   cell |-> <<0, 0>>, queue |-> <<>>, iterations |-> 0, pos |-> <<0, 0>>,
   neighbors |-> <<>>, possible |-> 0]

\* no direct call of can_connect is made
NoProbe ==
  [self_ |-> None, other |-> None, direction |-> "N", called |-> FALSE,
   result |-> FALSE, reversed |-> FALSE, reverse |-> FALSE]

NotBuilt == [width |-> 0, height |-> 0, tileset |-> {}, grid |-> <<>>]

\* what is recorded about a generator built with seed: the draws it consumed,
\* the _collapse_cell calls and the loop iterations of its generate call
Ghost(seed) == [seed |-> seed, ndraws |-> 0, collapses |-> 0, iterations |-> 0]

\* sum of len(c.possibilities) over the uncollapsed cells of grid
PossibleCount(grid, width, height) ==
  LET order == GridOrder(width, height)
  IN  SumSeq([i \in 1..Len(order) |->
                IF grid[order[i]].collapsed THEN 0
                ELSE Cardinality(grid[order[i]].possibilities)])

\* no direct call of _collapse_cell was made
NoCall ==
  [made |-> FALSE, g |-> 1, pos |-> <<0, 0>>, before |-> <<>>, result |-> FALSE]

\* _get_neighbors has not been called directly
NoNeighbors ==
  [width |-> 1, height |-> 1, p |-> <<0, 0>>, q |-> <<0, 0>>,
   called |-> {}, of_p |-> <<>>, of_q |-> <<>>]

\* expand has not been called, no grammar is loaded
NoExpansion == [pc |-> "none"]

\* neither expand_lsystem nor trace_path has been called
NoLSystem == [pc |-> "none"]

\* no generate call is in progress (one thread of control)
Idle == \A g \in Gens : frame[g].pc \in {"new", "ready", "done"}

\* the constructor arguments: positive sizes and a tile set
Arguments ==
  {a \in [width : 1..MaxCells, height : 1..MaxCells, tileset : TileSets] :
     a.width * a.height <= MaxCells}

Init ==
  /\ args \in Arguments
  /\ limit \in {ScaledLimit, PROPAGATION_LIMIT}
  /\ rng = random_seed(AnySeed)
  /\ self = [g \in Gens |-> NotBuilt]
  /\ frame = [g \in Gens |-> Frame("new", "none")]
  /\ ghost = [g \in Gens |-> Ghost(AnySeed)]
  /\ probe = NoProbe
  /\ call = NoCall
  /\ gx = NoExpansion
  /\ ls = NoLSystem
  /\ nbr = NoNeighbors

\* WFCGenerator.__init__
Construct(g, seed) ==
  /\ Idle
  /\ frame[g].pc = "new"
  /\ self' = [self EXCEPT ![g] =
       [width |-> args.width, height |-> args.height, tileset |-> args.tileset,
        grid |-> _initialize_grid(args.width, args.height, args.tileset)]]
  /\ rng' = random_seed(seed)
  /\ frame' = [frame EXCEPT ![g] = Frame("ready", "none")]
  /\ ghost' = [ghost EXCEPT ![g] = Ghost(seed)]
  /\ UNCHANGED <<args, limit, probe, call, gx, ls, nbr>>

\* the call gen.generate()
GenerateCall(g) ==
  /\ Idle
  /\ frame[g].pc = "ready"
  /\ frame' = [frame EXCEPT ![g] = Frame("loop", "none")]
  /\ UNCHANGED <<args, limit, rng, self, ghost, probe, call, gx, ls, nbr>>

\* top of the while loop of generate: iterations += 1, and
\* _find_minimum_entropy_cell builds its candidate list
FindCandidates(g) ==
  /\ frame[g].pc = "loop"
  /\ frame' = [frame EXCEPT ![g] =
       [Frame("min", "none") EXCEPT
          !.candidates = Candidates(self[g].grid, self[g].width, self[g].height)]]
  /\ ghost' = [ghost EXCEPT ![g].iterations = @ + 1]
  /\ UNCHANGED <<args, limit, rng, self, probe, call, gx, ls, nbr>>

\* min(candidates, key=lambda c: c.entropy) evaluates the key of the next
\* candidate and keeps the first smallest; after the last candidate min()
\* returns the cell alone, the key it had is dropped
EntropyKey(g) ==
  /\ frame[g].pc = "min"
  /\ frame[g].candidates # <<>>
  /\ LET p == Head(frame[g].candidates)
         c == self[g].grid[p]
         draws == EntropyDraws(c)
     IN  \E u \in RandVals :
           /\ IF draws THEN random_random(rng, u) ELSE u = 0
           /\ LET key == entropy(c, u)
                  best == frame[g].best
                  smallest == IF ~best.found \/ key < best.key
                              THEN [found |-> TRUE, pos |-> p, key |-> key]
                              ELSE best
              IN  frame' = [frame EXCEPT
                    ![g].candidates = Tail(@),
                    ![g].best = IF Tail(frame[g].candidates) = <<>>
                                THEN [smallest EXCEPT !.key = 0]
                                ELSE smallest]
           /\ rng' = IF draws THEN Advance(rng) ELSE rng
           /\ ghost' = IF draws THEN [ghost EXCEPT ![g].ndraws = @ + 1] ELSE ghost
  /\ UNCHANGED <<args, limit, self, probe, call, gx, ls, nbr>>

\* no candidate: break, and return all(c.collapsed ...)
GenerateBreak(g) ==
  /\ frame[g].pc = "min"
  /\ frame[g].candidates = <<>>
  /\ ~frame[g].best.found
  /\ frame' = [frame EXCEPT ![g] =
       Frame("done", IF AllCollapsed(self[g].grid) THEN "True" ELSE "False")]
  /\ UNCHANGED <<args, limit, rng, self, ghost, probe, call, gx, ls, nbr>>

\* _collapse_cell(cell) on the cell min() returned, then the entry of
\* _propagate(cell.position)
CollapseCell(g) ==
  /\ frame[g].pc = "min"
  /\ frame[g].candidates = <<>>
  /\ frame[g].best.found
  /\ LET p == frame[g].best.pos
         cell == self[g].grid[p]
     IN  IF ~_collapse_cell(cell)
         THEN /\ frame' = [frame EXCEPT ![g] = Frame("done", "False")]
              /\ ghost' = [ghost EXCEPT ![g].collapses = @ + 1]
              /\ UNCHANGED <<rng, self>>
         ELSE \E u \in RandVals :
                /\ random_random(rng, u)
                /\ self' = [self EXCEPT ![g].grid[p] = CollapsedCell(self[g], cell, u)]
                /\ rng' = Advance(rng)
                /\ ghost' = [ghost EXCEPT ![g].ndraws = @ + 1,
                                          ![g].collapses = @ + 1]
                /\ frame' = [frame EXCEPT ![g] =
                     [Frame("propagate", "none") EXCEPT
                        !.cell = p, !.queue = <<p>>, !.iterations = 0,
                        !.possible =
                           PossibleCount([self[g].grid EXCEPT
                                            ![p] = CollapsedCell(self[g], cell, u)],
                                         self[g].width, self[g].height)]]
  /\ UNCHANGED <<args, limit, probe, call, gx, ls, nbr>>

\* while queue and iterations < PROPAGATION_LIMIT
WhileCondition(g) ==
  frame[g].queue # <<>> /\ frame[g].iterations < limit

\* one pass of the while loop of _propagate up to the for loop
PropagatePop(g) ==
  /\ frame[g].pc = "propagate"
  /\ WhileCondition(g)
  /\ LET pos == Head(frame[g].queue)
         nbrs == _get_neighbors(self[g].width, self[g].height, pos)
     IN  frame' = [frame EXCEPT
           ![g].iterations = @ + 1,
           ![g].queue = Tail(@),
           ![g].pos = pos,
           ![g].neighbors = nbrs,
           ![g].pc = IF nbrs = <<>> THEN "propagate" ELSE "neighbor"]
  /\ UNCHANGED <<args, limit, rng, self, ghost, probe, call, gx, ls, nbr>>

NarrowedFrameNoCheck(fr, valid_tiles, neighbor_pos) ==
  [fr EXCEPT !.queue = Append(@, neighbor_pos)]

NarrowedFrameNoEnqueue(fr, valid_tiles, neighbor_pos) ==
  IF valid_tiles = {}
  THEN Frame("done", "False")
  ELSE fr

\* the frame after neighbor.possibilities = valid_tiles: an empty set makes
\* _propagate return False, and generate return False; any other is enqueued
NarrowedFrame(fr, valid_tiles, neighbor_pos) ==
  IF valid_tiles = {}
  THEN Frame("done", "False")
  ELSE [fr EXCEPT !.queue = Append(@, neighbor_pos)]

\* one pass of the for loop of _propagate
PropagateNeighbor(g) ==
  /\ frame[g].pc = "neighbor"
  /\ LET direction == Head(frame[g].neighbors)[1]
         neighbor_pos == Head(frame[g].neighbors)[2]
         cell == self[g].grid[frame[g].pos]
         neighbor == self[g].grid[neighbor_pos]
         valid_tiles == ValidTiles(cell, neighbor, direction)
         rest == Tail(frame[g].neighbors)
         continue == [frame[g] EXCEPT
                        !.neighbors = rest,
                        !.pc = IF rest = <<>> THEN "propagate" ELSE "neighbor"]
     IN  IF neighbor.collapsed
         THEN frame' = [frame EXCEPT ![g] = continue] /\ UNCHANGED self
         ELSE IF Cardinality(valid_tiles) < Cardinality(neighbor.possibilities)
              THEN /\ self' = [self EXCEPT
                        ![g].grid[neighbor_pos].possibilities = valid_tiles]
                   /\ frame' = [frame EXCEPT ![g] =
                        NarrowedFrame(continue, valid_tiles, neighbor_pos)]
              ELSE frame' = [frame EXCEPT ![g] = continue] /\ UNCHANGED self
  /\ UNCHANGED <<args, limit, rng, ghost, probe, call, gx, ls, nbr>>

\* the while loop of _propagate ends: return True, back to the loop of generate
PropagateReturn(g) ==
  /\ frame[g].pc = "propagate"
  /\ ~WhileCondition(g)
  /\ frame' = [frame EXCEPT ![g] = Frame("loop", "none")]
  /\ UNCHANGED <<args, limit, rng, self, ghost, probe, call, gx, ls, nbr>>

Step(g) ==
  \/ GenerateCall(g)
  \/ FindCandidates(g)
  \/ EntropyKey(g)
  \/ GenerateBreak(g)
  \/ CollapseCell(g)
  \/ PropagatePop(g)
  \/ PropagateNeighbor(g)
  \/ PropagateReturn(g)

\* One generator, built with an arbitrary seed: every sequence of draws.
Next ==
  \/ Construct(1, AnySeed)
  \/ Step(1)

Spec == Init /\ [][Next]_vars

\* Two generators of one process, built with tabulated seeds and run one
\* after the other in any order (the module-level random state is shared).
NextPair ==
  \E g \in Gens :
    \/ \E seed \in Seeds : Construct(g, seed)
    \/ Step(g)

SpecPair == Init /\ [][NextPair]_vars

\* ---------------------------------------- direct calls of _collapse_cell
\* gen._collapse_cell(gen.grid[p]), called once generate has returned
CollapseCellCall(g, p) ==
  /\ Idle
  /\ frame[g].pc = "done"
  /\ ~call.made
  /\ p \in DOMAIN self[g].grid
  /\ LET cell == self[g].grid[p]
         returns == _collapse_cell(cell)
     IN  /\ call' = [made |-> TRUE, g |-> g, pos |-> p, before |-> self[g].grid,
                     result |-> returns]
         /\ IF ~returns
            THEN UNCHANGED <<rng, self, ghost>>
            ELSE \E u \in RandVals :
                   /\ random_random(rng, u)
                   /\ self' = [self EXCEPT
                        ![g].grid[p] = CollapsedCell(self[g], cell, u)]
                   /\ rng' = Advance(rng)
                   /\ ghost' = [ghost EXCEPT ![g].ndraws = @ + 1]
  /\ UNCHANGED <<args, limit, frame, probe, gx, ls, nbr>>

\* One generator that has run, then one direct call on any of its cells.
NextCollapse ==
  \/ Construct(1, AnySeed)
  \/ Step(1)
  \/ \E p \in Positions(args.width, args.height) : CollapseCellCall(1, p)

SpecCollapse == Init /\ [][NextCollapse]_vars

\* ------------------------------------------- direct calls of can_connect
SocketSets == SUBSET Directions

InitConnect ==
  /\ args = [width |-> 1, height |-> 1, tileset |-> {}]
  /\ limit = PROPAGATION_LIMIT
  /\ nbr = NoNeighbors
  /\ rng = random_seed(AnySeed)
  /\ self = [g \in Gens |-> NotBuilt]
  /\ frame = [g \in Gens |-> Frame("new", "none")]
  /\ ghost = [g \in Gens |-> Ghost(AnySeed)]
  /\ call = NoCall
  /\ gx = NoExpansion
  /\ ls = NoLSystem
  /\ \E a \in SocketSets, b \in SocketSets, d \in Directions :
       probe = [self_ |-> Tile("a", a, 1), other |-> Tile("b", b, 1),
                direction |-> d, called |-> FALSE, result |-> FALSE,
                reversed |-> FALSE, reverse |-> FALSE]

\* result = probe.self_.can_connect(probe.other, probe.direction)
CanConnectCall ==
  /\ ~probe.called
  /\ probe' = [probe EXCEPT
       !.called = TRUE,
       !.result = can_connect(probe.self_, probe.other, probe.direction)]
  /\ UNCHANGED <<args, limit, rng, self, frame, ghost, call, gx, ls, nbr>>

\* the call across the same edge from the other side:
\* reverse = probe.other.can_connect(probe.self_, opposite[probe.direction])
CanConnectReverse ==
  /\ ~probe.reversed
  /\ probe' = [probe EXCEPT
       !.reversed = TRUE,
       !.reverse = can_connect(probe.other, probe.self_, opposite[probe.direction])]
  /\ UNCHANGED <<args, limit, rng, self, frame, ghost, call, gx, ls, nbr>>

NextConnect == CanConnectCall \/ CanConnectReverse

SpecConnect == InitConnect /\ [][NextConnect]_vars

\* ------------------------------------------------- direct _get_neighbors
\* gen = WFCGenerator(width, height, [], seed) and two positions of its grid;
\* _get_neighbors reads self.width and self.height only
InitNeighbors ==
  /\ args = [width |-> 1, height |-> 1, tileset |-> {}]
  /\ limit = PROPAGATION_LIMIT
  /\ rng = random_seed(AnySeed)
  /\ self = [g \in Gens |-> NotBuilt]
  /\ frame = [g \in Gens |-> Frame("new", "none")]
  /\ ghost = [g \in Gens |-> Ghost(AnySeed)]
  /\ probe = NoProbe
  /\ call = NoCall
  /\ gx = NoExpansion
  /\ ls = NoLSystem
  /\ \E width \in 1..MaxSide, height \in 1..MaxSide :
       \E p \in Positions(width, height), q \in Positions(width, height) :
         nbr = [width |-> width, height |-> height, p |-> p, q |-> q,
                called |-> {}, of_p |-> <<>>, of_q |-> <<>>]

\* of_p = gen._get_neighbors(p)
GetNeighborsOfP ==
  /\ "p" \notin nbr.called
  /\ nbr' = [nbr EXCEPT
       !.called = @ \cup {"p"},
       !.of_p = _get_neighbors(nbr.width, nbr.height, nbr.p)]
  /\ UNCHANGED <<args, limit, rng, self, frame, ghost, probe, call, gx, ls>>

\* of_q = gen._get_neighbors(q)
GetNeighborsOfQ ==
  /\ "q" \notin nbr.called
  /\ nbr' = [nbr EXCEPT
       !.called = @ \cup {"q"},
       !.of_q = _get_neighbors(nbr.width, nbr.height, nbr.q)]
  /\ UNCHANGED <<args, limit, rng, self, frame, ghost, probe, call, gx, ls>>

NextNeighbors == GetNeighborsOfP \/ GetNeighborsOfQ

SpecNeighbors == InitNeighbors /\ [][NextNeighbors]_vars

\* ======================================================= grammar expander
\* ("ChatGPT-5/Python/main.py").  A grammar text is a sequence of words and
\* line breaks; "->" and "|" are words of their own.

NewLine == "\n"
Words == {"S", "X", "a", "->", "|"}

\* NONTERM_RE.match(tok) for the words above (UpperCamelCase)
is_nonterminal(tok) == tok \in {"S", "X"}

\* s.split(sep) on a sequence of words
RECURSIVE Split(_, _)
Split(s, sep) ==
  IF \A i \in 1..Len(s) : s[i] # sep
  THEN << s >>
  ELSE LET i == CHOOSE i \in 1..Len(s) :
                  s[i] = sep /\ \A j \in 1..(i - 1) : s[j] # sep
       IN  << SubSeq(s, 1, i - 1) >> \o Split(SubSeq(s, i + 1, Len(s)), sep)

\* "".join(out) of smart_join: no space before , . ; : ! ? and 's
RECURSIVE smart_join(_)
smart_join(tokens) ==
  IF tokens = <<>> THEN ""
  ELSE LET t == tokens[Len(tokens)]
           front == smart_join(SubSeq(tokens, 1, Len(tokens) - 1))
       IN  IF Len(tokens) = 1 THEN t
           ELSE IF t \in {",", ".", ";", ":", "!", "?", "'s"} THEN front \o t
           ELSE front \o " " \o t

Production(symbols, weight) == [symbols |-> symbols, weight |-> weight]

\* _parse_weight: no word of the texts starts with "*", the weight is 1
_parse_weight(tokens) == [tokens |-> tokens, w |-> 1]

GrammarError(msg) == [raised |-> "GrammarError", msg |-> msg]
GenerationLimitError(msg) == [raised |-> "GenerationLimitError", msg |-> msg]
NoError == [raised |-> "", msg |-> ""]

\* the body of the loop over lines of parse_grammar, for one non-blank line
\* (lhs, rhs = line.split("->", 1): a later "->" is a word of rhs): rules
\* with the alternatives of the line appended, or the error raised
ParseLine(rules, line) ==
  IF \A i \in 1..Len(line) : line[i] # "->"
  THEN GrammarError("Missing '->' in rule")
  ELSE LET lhs == Split(line, "->")[1]
           rhs == SubSeq(line, Len(lhs) + 2, Len(line))
           alts == Split(rhs, "|")
       IN  IF ~(Len(lhs) = 1 /\ is_nonterminal(lhs[1]))
           THEN GrammarError("LHS must be Nonterminal")
           ELSE IF \E k \in 1..Len(alts) : _parse_weight(alts[k]).tokens = <<>>
           THEN GrammarError("Empty alternative")
           ELSE LET old == IF lhs[1] \in DOMAIN rules THEN rules[lhs[1]] ELSE <<>>
                    new == [k \in 1..Len(alts) |->
                              Production(_parse_weight(alts[k]).tokens,
                                         _parse_weight(alts[k]).w)]
                IN  [n \in DOMAIN rules \cup {lhs[1]} |->
                       IF n = lhs[1] THEN old \o new ELSE rules[n]]

IsError(x) == DOMAIN x = {"raised", "msg"}

RECURSIVE ParseLines(_, _)
ParseLines(rules, lines) ==
  IF lines = <<>> THEN rules
  ELSE LET next == ParseLine(rules, Head(lines))
       IN  IF IsError(next) THEN next ELSE ParseLines(next, Tail(lines))

UndefinedCheckSkipped(frozen) == {}

\* undefined = referenced - defined, of parse_grammar
Undefined(frozen) ==
  {tok \in Words :
     /\ is_nonterminal(tok)
     /\ \E n \in DOMAIN frozen : \E k \in 1..Len(frozen[n]) :
          \E i \in 1..Len(frozen[n][k].symbols) : frozen[n][k].symbols[i] = tok}
  \ DOMAIN frozen

\* parse_grammar(text): the mapping {lhs: alternatives}, or the error raised
parse_grammar(text) ==
  LET lines == SelectSeq(Split(text, NewLine), LAMBDA l : l # <<>>)
      frozen == ParseLines(<<>>, lines)
  IN  IF IsError(frozen) THEN frozen
      ELSE IF Undefined(frozen) # {}
      THEN GrammarError("Undefined nonterminals")
      ELSE frozen

\* _weighted_choice(rng, alts) when rng.randrange(total) returns r
_weighted_choice(alts, r) ==
  LET upto == [k \in 1..Len(alts) |->
                 SumSeq([j \in 1..k |-> alts[j].weight])]
      hits == {k \in 1..Len(alts) : r < upto[k]}
  IN  IF hits = {} THEN alts[Len(alts)]
      ELSE alts[CHOOSE k \in hits : \A j \in hits : k <= j]

\* Node(label): a derivation node without children
Node(label) == [label |-> label, children |-> "None"]

\* a terminal of the forest: the plain string s
Terminal(s) == [terminal |-> s]

\* a reference to a Node object: nodes[id] of expand's locals, the Node
\* objects in creation order (nodes[1] is root_node)
Ref(id) == [node |-> id]

AssertionError(msg) == [raised |-> "AssertionError", msg |-> msg]

\* the texts of n words and line breaks
Texts(n) == [1..n -> Words \cup {NewLine}]

InitGrammar ==
  /\ args = [width |-> 1, height |-> 1, tileset |-> {}]
  /\ limit = PROPAGATION_LIMIT
  /\ nbr = NoNeighbors
  /\ rng = random_seed(AnySeed)
  /\ self = [g \in Gens |-> NotBuilt]
  /\ frame = [g \in Gens |-> Frame("new", "none")]
  /\ ghost = [g \in Gens |-> Ghost(AnySeed)]
  /\ probe = NoProbe
  /\ call = NoCall
  /\ ls = NoLSystem
  /\ \E n \in 0..MaxTextLen : \E text \in Texts(n) :
       gx = [pc |-> "text", text |-> text]

\* grammar = parse_grammar(gtext)
ParseGrammar ==
  /\ gx.pc = "text"
  /\ LET grammar == parse_grammar(gx.text)
     IN  gx' = IF IsError(grammar)
               THEN [pc |-> "raised", text |-> gx.text, error |-> grammar]
               ELSE [pc |-> "parsed", text |-> gx.text, grammar |-> grammar]
  /\ UNCHANGED <<args, limit, rng, self, frame, ghost, probe, call, ls, nbr>>

\* the call expand(grammar, start=..., max_steps=..., max_tokens=...) up to
\* the while loop
ExpandCall ==
  /\ gx.pc = "parsed"
  /\ \E start \in {"S", "X", "a"}, max_steps \in 0..MaxSteps,
        max_tokens \in 0..MaxTokens :
       LET locals == [text |-> gx.text, grammar |-> gx.grammar, start |-> start,
                      max_steps |-> max_steps, max_tokens |-> max_tokens,
                      tokens |-> << start >>, nodes |-> << Node(start) >>,
                      forest |-> << Ref(1) >>,
                      steps |-> 0, error |-> NoError, result |-> ""]
       IN  gx' = IF start \notin DOMAIN gx.grammar
                 THEN [locals EXCEPT !.error = GrammarError("Unknown start symbol")]
                        @@ [pc |-> "raised"]
                 ELSE locals @@ [pc |-> "expand"]
  /\ UNCHANGED <<args, limit, rng, self, frame, ghost, probe, call, ls, nbr>>

StepLimitIgnored(steps, max_steps) == FALSE

\* steps >= max_steps
StepLimitReached(steps, max_steps) == steps >= max_steps

Rightmost(tokens) ==
  IF \A i \in 1..Len(tokens) : ~is_nonterminal(tokens[i]) THEN 0
  ELSE CHOOSE i \in 1..Len(tokens) :
         is_nonterminal(tokens[i])
         /\ \A j \in (i + 1)..Len(tokens) : ~is_nonterminal(tokens[j])

\* the index of the leftmost nonterminal of tokens, 0 for None
Leftmost(tokens) ==
  IF \A i \in 1..Len(tokens) : ~is_nonterminal(tokens[i]) THEN 0
  ELSE CHOOSE i \in 1..Len(tokens) :
         is_nonterminal(tokens[i]) /\ \A j \in 1..(i - 1) : ~is_nonterminal(tokens[j])

\* tokens[idx : idx + 1] = list(symbols)
Splice(tokens, idx, symbols) ==
  SubSeq(tokens, 1, idx - 1) \o symbols \o SubSeq(tokens, idx + 1, Len(tokens))

child_elems_all_strings(symbols, n) ==
  [i \in 1..Len(symbols) |-> Terminal(symbols[i])]

\* child_elems of expand, when n Node objects exist already: a new Node for
\* each nonterminal of symbols, the string itself for each terminal
child_elems(symbols, n) ==
  [i \in 1..Len(symbols) |->
     IF is_nonterminal(symbols[i])
     THEN Ref(n + Len(SelectSeq(SubSeq(symbols, 1, i), is_nonterminal)))
     ELSE Terminal(symbols[i])]

\* one pass of the while loop of expand
ExpandStep ==
  /\ gx.pc = "expand"
  /\ LET idx == Leftmost(gx.tokens)
         nt == gx.tokens[idx]
         alts == IF nt \in DOMAIN gx.grammar THEN gx.grammar[nt] ELSE <<>>
         total == SumSeq([k \in 1..Len(alts) |-> alts[k].weight])
     IN  IF Len(gx.tokens) > gx.max_tokens
         THEN gx' = [gx EXCEPT !.pc = "raised",
                       !.error = GenerationLimitError("Token limit exceeded.")]
         ELSE IF idx = 0
         THEN gx' = [gx EXCEPT !.pc = "returned",
                       !.result = smart_join(SelectSeq(gx.tokens,
                                     LAMBDA t : ~is_nonterminal(t)))]
         ELSE IF StepLimitReached(gx.steps, gx.max_steps)
         THEN gx' = [gx EXCEPT !.pc = "raised",
                       !.error = GenerationLimitError(
                          "Step limit reached with nonterminals remaining.")]
         ELSE IF alts = <<>>
         THEN gx' = [gx EXCEPT !.pc = "raised",
                       !.error = GrammarError("No productions for nonterminal")]
         ELSE \E r \in 0..(total - 1) :
                LET prod == _weighted_choice(alts, r)
                    children == child_elems(prod.symbols, Len(gx.nodes))
                    created == SelectSeq(prod.symbols, is_nonterminal)
                    node == gx.forest[idx]
                IN  IF DOMAIN node # {"node"}
                    THEN gx' = [gx EXCEPT !.pc = "raised",
                                  !.error = AssertionError("isinstance(node, Node)")]
                    ELSE gx' = [gx EXCEPT
                                  !.nodes = [@ EXCEPT ![node.node].children = children]
                                            \o [i \in 1..Len(created) |->
                                                  Node(created[i])],
                                  !.tokens = Splice(@, idx, prod.symbols),
                                  !.forest = Splice(@, idx, children),
                                  !.steps = @ + 1]
  /\ UNCHANGED <<args, limit, rng, self, frame, ghost, probe, call, ls, nbr>>

NextGrammar == ParseGrammar \/ ExpandCall \/ ExpandStep

SpecGrammar == InitGrammar /\ [][NextGrammar]_vars

\* ===================================================== L-system composer
\* ("Gemini 2.5 pro/Python/main.py").  A string is a sequence of characters.

\* the characters of axioms and rule values, and those that may have a rule
SystemChars == {"A", "B", "+"}
RuleKeys == {"A", "B"}

\* the strings of 1 to n characters over chars
Strings(chars, n) == UNION {[1..k -> chars] : k \in 1..n}

\* the rules dictionaries parse_rules returns: single characters mapped to
\* non-empty strings
RuleMaps == UNION {[K -> Strings(SystemChars, MaxRuleLen)] : K \in SUBSET RuleKeys}

RewriteHeadOnly(current, rules) ==
  IF current = <<>> THEN <<>>
  ELSE (IF Head(current) \in DOMAIN rules THEN rules[Head(current)]
        ELSE << Head(current) >>) \o Tail(current)

\* "".join(rules.get(char, char) for char in current)
RECURSIVE RewriteOnce(_, _)
RewriteOnce(current, rules) ==
  IF current = <<>> THEN <<>>
  ELSE LET n == Len(current)
           char == current[n]
       IN  RewriteOnce(SubSeq(current, 1, n - 1), rules)
           \o (IF char \in DOMAIN rules THEN rules[char] ELSE << char >>)

\* expand_lsystem(axiom, rules, iterations): the value of current after the
\* for loop
RECURSIVE expand_lsystem(_, _, _)
expand_lsystem(axiom, rules, iterations) ==
  IF iterations <= 0 THEN axiom
  ELSE RewriteOnce(expand_lsystem(axiom, rules, iterations - 1), rules)

InitExpand ==
  /\ args = [width |-> 1, height |-> 1, tileset |-> {}]
  /\ limit = PROPAGATION_LIMIT
  /\ nbr = NoNeighbors
  /\ rng = random_seed(AnySeed)
  /\ self = [g \in Gens |-> NotBuilt]
  /\ frame = [g \in Gens |-> Frame("new", "none")]
  /\ ghost = [g \in Gens |-> Ghost(AnySeed)]
  /\ probe = NoProbe
  /\ call = NoCall
  /\ gx = NoExpansion
  /\ \E n \in 0..MaxAxiomLen : \E axiom \in [1..n -> SystemChars] :
       \E rules \in RuleMaps, iterations \in 0..MaxIterations :
         ls = [pc |-> "expand", axiom |-> axiom, rules |-> rules,
               iterations |-> iterations, current |-> axiom, passes |-> 0]

\* one pass of the for loop of expand_lsystem
ExpandPass ==
  /\ ls.pc = "expand"
  /\ ls.passes < ls.iterations
  /\ ls' = [ls EXCEPT !.current = RewriteOnce(@, ls.rules), !.passes = @ + 1]
  /\ UNCHANGED <<args, limit, rng, self, frame, ghost, probe, call, gx, nbr>>

\* return current
ExpandReturn ==
  /\ ls.pc = "expand"
  /\ ls.passes >= ls.iterations
  /\ ls' = [ls EXCEPT !.pc = "returned"]
  /\ UNCHANGED <<args, limit, rng, self, frame, ghost, probe, call, gx, nbr>>

NextExpand == ExpandPass \/ ExpandReturn

SpecExpand == InitExpand /\ [][NextExpand]_vars

\* ---------------------------------------------------------- the turtle
\* Angles are whole degrees, multiples of 90; math.cos and math.sin of such
\* an angle are taken as the whole numbers they stand for.
Cos(angle) ==
  CASE angle % 360 = 0 -> 1 [] angle % 360 = 180 -> -1 [] OTHER -> 0
Sin(angle) ==
  CASE angle % 360 = 90 -> 1 [] angle % 360 = 270 -> -1 [] OTHER -> 0

\* TurtleState(): at the origin, pointing up
TurtleState == [x |-> 0, y |-> 0, angle |-> 90]

\* TurtleState.turn and TurtleState.move
turn(state, angle_delta) == [state EXCEPT !.angle = @ + angle_delta]
move(state, distance) ==
  [state EXCEPT !.x = @ + distance * Cos(state.angle),
                !.y = @ + distance * Sin(state.angle)]

CommandChars == {"F", "G", "+", "-", "[", "]", "X"}

PoppedOldest(state, stack) ==
  IF stack # <<>>
  THEN [state |-> stack[1], stack |-> Tail(stack)]
  ELSE [state |-> state, stack |-> stack]

\* case ']': if stack: state = stack.pop()
Popped(state, stack) ==
  IF stack # <<>>
  THEN [state |-> stack[Len(stack)], stack |-> SubSeq(stack, 1, Len(stack) - 1)]
  ELSE [state |-> state, stack |-> stack]

InitTrace ==
  /\ args = [width |-> 1, height |-> 1, tileset |-> {}]
  /\ limit = PROPAGATION_LIMIT
  /\ nbr = NoNeighbors
  /\ rng = random_seed(AnySeed)
  /\ self = [g \in Gens |-> NotBuilt]
  /\ frame = [g \in Gens |-> Frame("new", "none")]
  /\ ghost = [g \in Gens |-> Ghost(AnySeed)]
  /\ probe = NoProbe
  /\ call = NoCall
  /\ gx = NoExpansion
  /\ \E n \in 0..MaxCommands : \E commands \in [1..n -> CommandChars] :
       ls = [pc |-> "trace", commands |-> commands,
             angle_increment |-> DEFAULT_ANGLE, i |-> 0,
             state |-> TurtleState, stack |-> <<>>, path |-> <<>>,
             states |-> <<>>]

\* one pass of the for loop of trace_path, on the command after the i
\* consumed so far; path collects the segments yielded, states the turtle
\* state after each command
TraceCommand ==
  /\ ls.pc = "trace"
  /\ ls.i < Len(ls.commands)
  /\ LET command == ls.commands[ls.i + 1]
         new_state == move(ls.state, 1)
         after ==
           CASE command \in {"F", "G"} ->
                  [ls EXCEPT !.path = Append(@, <<ls.state, new_state>>),
                             !.state = new_state]
             [] command = "+" ->
                  [ls EXCEPT !.state = turn(@, ls.angle_increment)]
             [] command = "-" ->
                  [ls EXCEPT !.state = turn(@, -ls.angle_increment)]
             [] command = "[" ->
                  [ls EXCEPT !.stack = Append(@, ls.state)]
             [] command = "]" ->
                  [ls EXCEPT !.state = Popped(ls.state, ls.stack).state,
                             !.stack = Popped(ls.state, ls.stack).stack]
             [] OTHER -> ls
     IN  ls' = [after EXCEPT !.i = @ + 1, !.states = Append(@, after.state)]
  /\ UNCHANGED <<args, limit, rng, self, frame, ghost, probe, call, gx, nbr>>

\* the commands are used up: the generator ends
TraceEnd ==
  /\ ls.pc = "trace"
  /\ ls.i >= Len(ls.commands)
  /\ ls' = [ls EXCEPT !.pc = "done"]
  /\ UNCHANGED <<args, limit, rng, self, frame, ghost, probe, call, gx, nbr>>

NextTrace == TraceCommand \/ TraceEnd

SpecTrace == InitTrace /\ [][NextTrace]_vars

\* ================================================================= claims
\* What the claims speak of, written from their wording.

\* generate has returned, and what it returned
Returned(g) == frame[g].pc = "done"
Succeeded(g) == Returned(g) /\ frame[g].result = "True"
Failed(g) == Returned(g) /\ frame[g].result = "False"
\* a generate call is in progress
Running(g) == frame[g].pc \in {"loop", "min", "propagate", "neighbor"}

\* the opposite direction: N <-> S, E <-> W
Opp(d) == CASE d = "N" -> "S" [] d = "S" -> "N" [] d = "E" -> "W" [] d = "W" -> "E"

\* d is a socket of a and the opposite of d is a socket of b
Connects(a, b, d) == d \in a.sockets /\ Opp(d) \in b.sockets

\* the position lying in direction d from p
Toward(p, d) ==
  CASE d = "N" -> <<p[1], p[2] - 1>>
    [] d = "S" -> <<p[1], p[2] + 1>>
    [] d = "E" -> <<p[1] + 1, p[2]>>
    [] d = "W" -> <<p[1] - 1, p[2]>>

Grid(g) == self[g].grid
Cells(g) == DOMAIN self[g].grid

\* a non-empty tile set in which every tile exposes all four sockets
AllFourSockets(tileset) ==
  tileset # {} /\ \A t \in tileset : t.sockets = Directions

\* How far a generate call is from returning, at most: the cells left to
\* collapse first, then the work left in the statement being executed (the
\* candidates min() has still to look at; in _propagate the tiles that can
\* still be removed, the queued positions and the neighbours left to visit).
RemainingWork(g) ==
  LET order == GridOrder(self[g].width, self[g].height)
      cells == Len(order)
      tiles == Cardinality(self[g].tileset)
      open == Cardinality({p \in Cells(g) : ~Grid(g)[p].collapsed})
      possible == SumSeq([i \in 1..cells |->
                            Cardinality(Grid(g)[order[i]].possibilities)])
      round == 12 * cells * tiles + cells + 10
      inStatement ==
        CASE frame[g].pc = "loop" -> cells + 2
          [] frame[g].pc = "min" -> Len(frame[g].candidates) + 1
          [] frame[g].pc \in {"propagate", "neighbor"} ->
               (cells + 3) + 6 * possible + 5 * Len(frame[g].queue)
               + Len(frame[g].neighbors)
          [] OTHER -> 0
  IN  open * round + inStatement

\* C1: whenever generate returns True, every cell p and its grid neighbour q
\* in direction d satisfy p.chosen.can_connect(q.chosen, d).
C1_AdjacencySound ==
  \A g \in Gens :
    Succeeded(g) =>
      \A p \in Cells(g), d \in Directions :
        Toward(p, d) \in Cells(g) =>
          Connects(Grid(g)[p].chosen, Grid(g)[Toward(p, d)].chosen, d)

\* a successful 2 x 2 run whose first cell is a corner tile, so that the
\* propagation had tiles to remove around it
C1_Witness ==
  /\ Succeeded(1)
  /\ self[1].width = 2 /\ self[1].height = 2
  /\ Grid(1)[<<0, 0>>].chosen.symbol = "cornerSE"

\* C2: whenever generate returns True, every cell is collapsed with
\* possibilities = {chosen}, and render has height lines and no '?' marker.
C2_Completeness ==
  \A g \in Gens :
    Succeeded(g) =>
      /\ \A p \in Cells(g) :
           Grid(g)[p].collapsed /\ Grid(g)[p].possibilities = {Grid(g)[p].chosen}
      /\ Len(render(g)) = self[g].height
      /\ \A y \in 1..Len(render(g)) :
           \A x \in 1..Len(render(g)[y]) : render(g)[y][x] # "?"

\* a successful run over the largest grid with a choice of tiles
C2_Witness ==
  /\ Succeeded(1)
  /\ self[1].width * self[1].height = MaxCells
  /\ Cardinality(self[1].tileset) >= 2

\* C3: when the while loop of _propagate stops at the iteration limit with
\* the queue still non-empty, _propagate and generate return False.
C3_LimitIsFailure ==
  [][\A g \in Gens :
       (/\ frame[g].pc = "propagate"
        /\ frame[g].queue # <<>>
        /\ frame[g].iterations >= limit)
       => (frame'[g].pc = "done" /\ frame'[g].result = "False")]_vars

\* C4: two generators built with the same width, height, tile set and seed
\* have, once both have run, the same result and the same cells.
C4_Deterministic ==
  \A g \in Gens, h \in Gens :
    (Returned(g) /\ Returned(h) /\ ghost[g].seed = ghost[h].seed)
    => (frame[g].result = frame[h].result /\ Grid(g) = Grid(h))

\* C5: while generator g runs, the random state is the one its own seed
\* leads to after the draws g has made: no other generator moved it.
C5_OwnRandomSource ==
  \A g \in Gens :
    Running(g) => rng = [seed |-> ghost[g].seed, n |-> ghost[g].ndraws]

\* C6: every step of a run leaves each cell's possibilities a subset of what
\* they were.
C6_MonotonicNarrowing ==
  [][\A g \in Gens : \A p \in Cells(g) :
       self'[g].grid[p].possibilities \subseteq Grid(g)[p].possibilities]_vars

\* a cell that propagation narrowed to a proper, non-empty part of the tile
\* set while the run goes on
C6_Witness ==
  /\ Running(1)
  /\ \E p \in Cells(1) :
       /\ ~Grid(1)[p].collapsed
       /\ Grid(1)[p].possibilities # {}
       /\ Grid(1)[p].possibilities # self[1].tileset

\* C7: the step that empties a cell's possibility set ends generate with
\* False, and once generate has returned nothing of the generator changes.
C7_ContradictionTerminal ==
  [][\A g \in Gens :
       /\ (\E p \in Cells(g) :
             /\ Grid(g)[p].possibilities # {}
             /\ self'[g].grid[p].possibilities = {})
          => (frame'[g].pc = "done" /\ frame'[g].result = "False")
       /\ Returned(g) => (self'[g] = self[g] /\ frame'[g] = frame[g])]_vars

\* a failed run: one cell emptied, one collapsed, one left open
C7_Witness ==
  /\ Failed(1)
  /\ \E p \in Cells(1) : Grid(1)[p].possibilities = {}
  /\ \E p \in Cells(1) : Grid(1)[p].collapsed
  /\ \E p \in Cells(1) :
       ~Grid(1)[p].collapsed /\ Grid(1)[p].possibilities # {}

\* C8: with a non-empty tile set whose tiles all expose the four sockets,
\* generate never returns False, it returns with every cell collapsed, no
\* step of _propagate changes a cell, and every step of the call brings the
\* return nearer (the call cannot run forever).
C8_AllSocketsNeverFail ==
  /\ [](\A g \in Gens :
          (AllFourSockets(self[g].tileset) /\ Returned(g))
          => (frame[g].result = "True" /\ \A p \in Cells(g) : Grid(g)[p].collapsed))
  /\ [][\A g \in Gens :
          (AllFourSockets(self[g].tileset) /\ frame[g].pc \in {"propagate", "neighbor"})
          => self'[g].grid = Grid(g)]_vars
  /\ [][\A g \in Gens :
          (AllFourSockets(self[g].tileset) /\ Running(g))
          => RemainingWork(g)' < RemainingWork(g)]_vars

\* a successful run over the largest grid with both all-socket tiles chosen
C8_Witness ==
  /\ Succeeded(1)
  /\ AllFourSockets(self[1].tileset)
  /\ self[1].width * self[1].height = MaxCells
  /\ \E p \in Cells(1), q \in Cells(1) : Grid(1)[p].chosen # Grid(1)[q].chosen

\* C9: in every state, a collapsed cell has a chosen tile and possibilities
\* = {chosen}; a cell that is not collapsed has chosen = None.
C9_CellInvariant ==
  \A g \in Gens : \A p \in Cells(g) :
    LET c == Grid(g)[p]
    IN  /\ c.collapsed => (c.chosen # None /\ c.possibilities = {c.chosen})
        /\ ~c.collapsed => c.chosen = None

\* a failed run with a collapsed cell and an emptied one
C9_Witness ==
  /\ Failed(1)
  /\ \E p \in Cells(1) : Grid(1)[p].collapsed
  /\ \E p \in Cells(1) : ~Grid(1)[p].collapsed /\ Grid(1)[p].possibilities = {}

\* C10: can_connect(a, b, d) is true exactly when d is a socket of a and the
\* opposite direction of d is a socket of b.
C10_CanConnect ==
  probe.called =>
    (probe.result <=> Connects(probe.self_, probe.other, probe.direction))

\* a call that answers True and needs both halves: a has other sockets than
\* b has
C10_Witness ==
  /\ probe.called /\ probe.result
  /\ probe.self_.sockets = {"E", "N"}
  /\ probe.other.sockets = {"W"}

\* the cell a direct call of _collapse_cell was given, before and after it
CalledBefore == call.before[call.pos]
CalledAfter == self[call.g].grid[call.pos]

\* C11: _collapse_cell on a cell with non-empty possibilities returns True
\* and leaves chosen a member of the possibilities the cell had, possibilities
\* = {chosen} and collapsed = True; no other cell of the grid is changed.
C11_CollapseContract ==
  (call.made /\ CalledBefore.possibilities # {}) =>
    /\ call.result = TRUE
    /\ CalledAfter.chosen \in CalledBefore.possibilities
    /\ CalledAfter.possibilities = {CalledAfter.chosen}
    /\ CalledAfter.collapsed = TRUE
    /\ \A q \in DOMAIN call.before :
         q # call.pos => self[call.g].grid[q] = call.before[q]

\* a call on an open cell that still had two tiles or more, in a grid with
\* other cells, which picked another tile than the first of the list
C11_Witness ==
  /\ call.made
  /\ ~CalledBefore.collapsed
  /\ Cardinality(CalledBefore.possibilities) >= 2
  /\ Cardinality(DOMAIN call.before) >= 2
  /\ CalledAfter.chosen # Head(ListOf(CalledBefore.possibilities))

\* C12: _collapse_cell returns False exactly when the cell's possibilities
\* are empty at the call, and then chosen, possibilities and collapsed of the
\* cell (and the random state) stay as they were; otherwise it returns True.
C12_CollapseFailsOnlyOnEmpty ==
  call.made =>
    /\ call.result \in BOOLEAN
    /\ (call.result = FALSE) <=> (CalledBefore.possibilities = {})
    /\ CalledBefore.possibilities = {} =>
         /\ CalledAfter.chosen = CalledBefore.chosen
         /\ CalledAfter.possibilities = CalledBefore.possibilities
         /\ CalledAfter.collapsed = CalledBefore.collapsed

\* a call on a cell that propagation had emptied, in a run that had tiles
C12_Witness ==
  /\ call.made
  /\ call.result = FALSE
  /\ CalledBefore.possibilities = {}
  /\ self[call.g].tileset # {}

\* the cells of g that are collapsed
NCollapsed(g) == Cardinality({p \in Cells(g) : Grid(g)[p].collapsed})

\* What bounds the length of a generate call from its loop counters: the
\* iterations the loop of generate has left (one per cell, and the one that
\* breaks), then within an iteration the candidates min() has still to look
\* at, the passes the loop of _propagate has left and the neighbours left to
\* visit in the current pass.
LoopMeasure(g) ==
  LET cells == self[g].width * self[g].height
      inIteration ==
        CASE frame[g].pc = "min" -> 5 * limit + 6 + Len(frame[g].candidates)
          [] frame[g].pc \in {"propagate", "neighbor"} ->
               1 + 5 * (limit - frame[g].iterations) + Len(frame[g].neighbors)
          [] OTHER -> 0
  IN  (cells + 1 - ghost[g].iterations) * (5 * limit + 8 + cells) + inIteration

\* C13: generate terminates (every step of the call lowers a measure that
\* never goes below zero), it calls _collapse_cell at most width * height
\* times, and every loop iteration that does not end the run adds exactly one
\* collapsed cell (at the top of the loop as many cells are collapsed as
\* iterations went by).
C13_OneCollapsePerCell ==
  /\ [](\A g \in Gens :
          /\ LoopMeasure(g) >= 0
          /\ ghost[g].collapses <= self[g].width * self[g].height
          /\ frame[g].pc = "loop" => NCollapsed(g) = ghost[g].iterations
          /\ frame[g].pc = "min" => NCollapsed(g) = ghost[g].iterations - 1
          /\ frame[g].pc \in {"propagate", "neighbor"} =>
               NCollapsed(g) = ghost[g].iterations)
  /\ [][\A g \in Gens : Running(g) => LoopMeasure(g)' < LoopMeasure(g)]_vars

\* the top of the loop after three iterations that went on, in a run whose
\* tiles do not all fit together
C13_Witness ==
  /\ frame[1].pc = "loop"
  /\ ghost[1].iterations = 3
  /\ ghost[1].collapses = 3
  /\ ~AllFourSockets(self[1].tileset)

\* ---- propagation
\* the set _propagate reads for a popped cell: {chosen} if the cell is
\* collapsed, its possibilities otherwise
CurrentSet(c) == IF c.collapsed THEN {c.chosen} ELSE c.possibilities

\* tile t of the neighbour in direction d has a tile of c that connects to it
Supported(c, t, d) == \E k \in CurrentSet(c) : Connects(k, t, d)

\* every tile left in an uncollapsed cell q is supported by each cell p that
\* has q as its neighbour
ArcConsistent(g) ==
  \A p \in Cells(g), d \in Directions :
    LET q == Toward(p, d)
    IN  (q \in Cells(g) /\ ~Grid(g)[q].collapsed) =>
          \A t \in Grid(g)[q].possibilities : Supported(Grid(g)[p], t, d)

\* _propagate has just returned True to generate
PropagatedTrue(g) == frame[g].pc = "loop" /\ ghost[g].iterations >= 1

\* C18: whenever _propagate returns True the grid is arc-consistent: for
\* every cell p and uncollapsed in-grid neighbour q in direction d, each tile
\* of q.possibilities has a tile of p's current set that connects to it.
C18_ArcConsistent ==
  \A g \in Gens : PropagatedTrue(g) => ArcConsistent(g)

\* a call of _propagate is in progress
Propagating(g) == frame[g].pc \in {"propagate", "neighbor"}

\* C19: in a _propagate call every enqueue comes with a strict decrease of
\* the sum of possibility-set sizes, the loop makes at most 1 + (sum of the
\* possibility-set sizes of the cells uncollapsed at the start of the call)
\* iterations, and the call ends with the queue empty or with False.
C19_PropagationTerminates ==
  /\ [](\A g \in Gens :
          Propagating(g) => frame[g].iterations <= 1 + frame[g].possible)
  /\ [][\A g \in Gens :
          /\ (Propagating(g) /\ Len(frame'[g].queue) > Len(frame[g].queue))
               => PossibleCount(self'[g].grid, self[g].width, self[g].height)
                    < PossibleCount(Grid(g), self[g].width, self[g].height)
          /\ (Propagating(g) /\ ~Propagating(g)')
               => (frame[g].queue = <<>>
                   \/ (frame'[g].pc = "done" /\ frame'[g].result = "False"))]_vars

\* C20: a step of _propagate on popped cell p and uncollapsed neighbour q in
\* direction d leaves in q exactly the tiles of q's previous possibilities
\* that some tile of p's current set connects to.
C20_NarrowingStep ==
  [][\A g \in Gens :
       (frame[g].pc = "neighbor"
        /\ ~Grid(g)[Head(frame[g].neighbors)[2]].collapsed) =>
         LET d == Head(frame[g].neighbors)[1]
             q == Head(frame[g].neighbors)[2]
             p == frame[g].pos
         IN  /\ self'[g].grid[q].possibilities =
                  {t \in Grid(g)[q].possibilities : Supported(Grid(g)[p], t, d)}
             /\ self'[g].grid[q].possibilities \subseteq Grid(g)[q].possibilities
             /\ q = Toward(p, d)]_vars

\* a cell just narrowed from an open cell that still has two tiles or more:
\* it is the last of the queue, with a proper, non-empty part of the tile set
C20_Witness ==
  /\ Propagating(1)
  /\ frame[1].queue # <<>>
  /\ LET q == frame[1].queue[Len(frame[1].queue)]
     IN  /\ ~Grid(1)[q].collapsed
         /\ Grid(1)[q].possibilities # self[1].tileset
         /\ Cardinality(Grid(1)[q].possibilities) >= 1
  /\ ~Grid(1)[frame[1].pos].collapsed
  /\ Cardinality(Grid(1)[frame[1].pos].possibilities) >= 2

\* ---- grammar expander
\* expand is in its loop; expand was called and has ended
Expanding == gx.pc = "expand"
Expanded == gx.pc \in {"returned", "raised"} /\ "start" \in DOMAIN gx

\* the frontier holds a nonterminal
HasNonterminal(tokens) == \E i \in 1..Len(tokens) : tokens[i] \in {"S", "X"}

LimitError == gx.pc = "raised" /\ gx.error.raised = "GenerationLimitError"

\* every alternative of every rule holds a nonterminal (as in S -> S S)
NeverResolves(grammar) ==
  \A n \in DOMAIN grammar : \A k \in 1..Len(grammar[n]) :
    HasNonterminal(grammar[n][k].symbols)

ParseEnded == gx.pc = "parsed" \/ (gx.pc = "raised" /\ "start" \notin DOMAIN gx)

\* the lines of a text, and where the first "->" of a line is
TextLines(text) == Split(text, "\n")
ArrowAt(line) ==
  IF \E i \in 1..Len(line) : line[i] = "->"
  THEN CHOOSE i \in 1..Len(line) : line[i] = "->" /\ \A j \in 1..(i - 1) : line[j] # "->"
  ELSE Len(line) + 1

\* the nonterminals a text gives a rule to, and those its rules mention
RuledIn(text) ==
  {n \in {"S", "X"} : \E k \in 1..Len(TextLines(text)) :
     LET line == TextLines(text)[k]
     IN  ArrowAt(line) = 2 /\ line[1] = n}
MentionedIn(text) ==
  {n \in {"S", "X"} : \E k \in 1..Len(TextLines(text)) :
     LET line == TextLines(text)[k]
     IN  \E i \in (ArrowAt(line) + 1)..Len(line) : line[i] = n}

\* C15: parse_grammar raises GrammarError on every text that mentions a
\* nonterminal without a rule; so in a grammar it returns every rule has an
\* alternative and every nonterminal mentioned has a rule, each nonterminal
\* of the frontier of expand has a production, and expand never raises "No
\* productions for nonterminal".
C15_NoUndefinedNonterminal ==
  /\ (ParseEnded /\ ~(MentionedIn(gx.text) \subseteq RuledIn(gx.text)))
       => (gx.pc = "raised" /\ gx.error.raised = "GrammarError")
  /\ gx.pc = "parsed" =>
       \A n \in DOMAIN gx.grammar :
         /\ Len(gx.grammar[n]) >= 1
         /\ \A k \in 1..Len(gx.grammar[n]) :
              \A i \in 1..Len(gx.grammar[n][k].symbols) :
                gx.grammar[n][k].symbols[i] \in {"S", "X"}
                  => gx.grammar[n][k].symbols[i] \in DOMAIN gx.grammar
  /\ Expanding =>
       \A i \in 1..Len(gx.tokens) :
         gx.tokens[i] \in {"S", "X"} =>
           (gx.tokens[i] \in DOMAIN gx.grammar /\ Len(gx.grammar[gx.tokens[i]]) >= 1)
  /\ Expanded => gx.error.msg # "No productions for nonterminal"

\* S -> X, X -> a: the frontier holds X, a nonterminal other than the start
C15_Witness ==
  /\ Expanding
  /\ gx.start = "S"
  /\ gx.tokens = <<"X">>
  /\ gx.text = <<"S", "->", "X", "\n", "X", "->", "a">>

\* ---- L-system composer
\* every character of s rewritten at once: a character with a rule replaced
\* by its value, any other kept
RECURSIVE Rewritten(_, _)
Rewritten(s, rules) ==
  IF s = <<>> THEN <<>>
  ELSE (IF Head(s) \in DOMAIN rules THEN rules[Head(s)] ELSE << Head(s) >>)
       \o Rewritten(Tail(s), rules)

\* s rewritten k times
RECURSIVE Iterated(_, _, _)
Iterated(s, rules, k) ==
  IF k = 0 THEN s ELSE Iterated(Rewritten(s, rules), rules, k - 1)

\* C16: expand_lsystem(axiom, rules, n) returns the axiom rewritten n times,
\* every character at once in each pass; with n = 0 it returns the axiom; and
\* expanding m + n times equals expanding m times and then n times.
C16_ExpandLSystem ==
  ls.pc = "returned" =>
    /\ ls.current = Iterated(ls.axiom, ls.rules, ls.iterations)
    /\ ls.current = expand_lsystem(ls.axiom, ls.rules, ls.iterations)
    /\ ls.iterations = 0 => ls.current = ls.axiom
    /\ \A m \in 0..ls.iterations :
         ls.current =
           expand_lsystem(expand_lsystem(ls.axiom, ls.rules, m), ls.rules,
                          ls.iterations - m)

\* the algae system A -> AB, B -> A, expanded twice from A
C16_Witness ==
  /\ ls.pc = "returned"
  /\ ls.axiom = <<"A">>
  /\ DOMAIN ls.rules = {"A", "B"}
  /\ ls.rules["A"] = <<"A", "B">>
  /\ ls.rules["B"] = <<"A">>
  /\ ls.iterations = 2
  /\ ls.current = <<"A", "B", "A">>

\* the 'F' and 'G' commands among the first k
Draws(commands, k) == {n \in 1..k : commands[n] \in {"F", "G"}}

\* the turtle state before command n
Before(n) == IF n = 1 THEN [x |-> 0, y |-> 0, angle |-> 90] ELSE ls.states[n - 1]

\* the '[' commands among the first k that no later ']' among them has
\* closed, oldest first (a ']' with nothing open closes nothing)
RECURSIVE OpenAt(_, _)
OpenAt(commands, k) ==
  IF k = 0 THEN <<>>
  ELSE LET open == OpenAt(commands, k - 1)
       IN  IF commands[k] = "[" THEN Append(open, k)
           ELSE IF commands[k] = "]" /\ open # <<>>
                THEN SubSeq(open, 1, Len(open) - 1)
           ELSE open

\* the '[' that the ']' at n closes, 0 if none is open
Match(commands, n) ==
  LET open == OpenAt(commands, n - 1)
  IN  IF open = <<>> THEN 0 ELSE open[Len(open)]

\* C17: trace_path yields one segment per 'F' or 'G' command, in order (the
\* k-th segment goes from the turtle state before the k-th such command to
\* the state after it); a ']' puts the turtle back in the state it had at
\* the '[' it closes, so the next segment (the first drawn after it, before
\* any other ']') starts at that position; a ']' with nothing open leaves
\* the state as it is, and the trace goes on to the end of the commands.
C17_TracePath ==
  (ls.pc \in {"trace", "done"}) =>
    /\ Len(ls.path) = Cardinality(Draws(ls.commands, ls.i))
    /\ \A n \in Draws(ls.commands, ls.i) :
         ls.path[Cardinality(Draws(ls.commands, n))] = <<Before(n), ls.states[n]>>
    /\ \A n \in 1..ls.i :
         ls.commands[n] = "]" =>
           LET m == Match(ls.commands, n)
           IN  /\ m = 0 => ls.states[n] = Before(n)
               /\ m # 0 =>
                    /\ ls.states[n] = Before(m)
                    /\ \A d \in Draws(ls.commands, ls.i) :
                         (d > n /\ \A j \in (n + 1)..(d - 1) :
                                     ls.commands[j] \notin {"]", "F", "G"})
                         => LET start == ls.path[Cardinality(Draws(ls.commands, d))][1]
                            IN  start.x = Before(m).x /\ start.y = Before(m).y
    /\ ls.pc = "done" => ls.i = Len(ls.commands)

\* F[+F]F: three segments, the third from where the first ended
C17_Witness ==
  /\ ls.pc = "done"
  /\ ls.commands = <<"F", "[", "F", "]", "F">>
  /\ Len(ls.path) = 3
  /\ ls.path[3][1] = ls.path[1][2]
  /\ ls.path[3][1] # ls.path[2][2]

\* ---- propagation, step by step
\* the neighbour the for loop of _propagate is about to visit, its direction
\* from the popped cell, and that neighbour's tiles the popped cell supports
Visited(g) == Head(frame[g].neighbors)[2]
VisitedDir(g) == Head(frame[g].neighbors)[1]
Filtered(g) ==
  {t \in Grid(g)[Visited(g)].possibilities :
     Supported(Grid(g)[frame[g].pos], t, VisitedDir(g))}

\* C21: in _propagate the neighbour q is appended to the queue exactly when
\* the step replaced its possibilities by a strictly smaller, non-empty set
\* (and nothing else is ever appended); an uncollapsed neighbour whose filtered
\* set equals its set is neither modified nor enqueued; one whose filtered set
\* is empty makes _propagate (and generate) return False at once, not enqueued.
C21_EnqueueOnNarrowing ==
  [][\A g \in Gens :
       frame[g].pc = "neighbor" =>
         LET q == Visited(g)
             old == Grid(g)[q].possibilities
             new == self'[g].grid[q].possibilities
             enqueued == /\ Propagating(g)'
                         /\ frame'[g].queue = Append(frame[g].queue, q)
             narrowed == /\ new \subseteq old
                         /\ Cardinality(new) < Cardinality(old)
                         /\ new # {}
         IN  /\ enqueued <=> narrowed
             /\ (Propagating(g)' /\ ~enqueued) => frame'[g].queue = frame[g].queue
             /\ (~Grid(g)[q].collapsed /\ Filtered(g) = old) =>
                   (self'[g].grid = Grid(g) /\ frame'[g].queue = frame[g].queue)
             /\ (~Grid(g)[q].collapsed /\ Filtered(g) = {} /\ old # {}) =>
                   /\ frame'[g].pc = "done" /\ frame'[g].result = "False"
                   /\ frame'[g].queue # Append(frame[g].queue, q)]_vars

\* a pass that enqueued two narrowed neighbours of the popped cell, and is
\* about to visit a third one
C21_Witness ==
  /\ frame[1].pc = "neighbor"
  /\ Len(frame[1].queue) = 2
  /\ \A i \in 1..2 :
       LET c == Grid(1)[frame[1].queue[i]]
       IN  ~c.collapsed /\ c.possibilities # {} /\ c.possibilities # self[1].tileset

\* C22: a collapsed cell is final: no step of the run changes its chosen
\* tile, its possibilities or its collapsed flag (nor its position);
\* _propagate skips a collapsed neighbour (the grid and the queue stay as they
\* are); the cell generate passes to _collapse_cell is never a collapsed one.
C22_CollapsedIsFinal ==
  [][\A g \in Gens :
       /\ \A p \in Cells(g) :
            Grid(g)[p].collapsed =>
              /\ p \in DOMAIN self'[g].grid
              /\ self'[g].grid[p] = Grid(g)[p]
       /\ (frame[g].pc = "neighbor" /\ Grid(g)[Visited(g)].collapsed) =>
            /\ self'[g].grid = Grid(g)
            /\ frame'[g].queue = frame[g].queue
            /\ Propagating(g)'
       /\ ghost'[g].collapses > ghost[g].collapses =>
            ~Grid(g)[frame[g].best.pos].collapsed]_vars

\* _propagate, on a popped cell that is still open with two tiles or more,
\* is about to visit a collapsed neighbour, in a run that has collapsed two
\* cells already
C22_Witness ==
  /\ frame[1].pc = "neighbor"
  /\ Grid(1)[Visited(1)].collapsed
  /\ ~Grid(1)[frame[1].pos].collapsed
  /\ Cardinality(Grid(1)[frame[1].pos].possibilities) >= 2
  /\ NCollapsed(1) >= 2

\* ---- selection
\* C23: with a non-empty tile set, the selector finds no candidate during
\* generate only when every cell is collapsed, and the break of the loop is
\* always followed by the return of True.
C23_BreakMeansSuccess ==
  /\ [](\A g \in Gens :
          (/\ frame[g].pc = "loop"
           /\ self[g].tileset # {}
           /\ Candidates(Grid(g), self[g].width, self[g].height) = <<>>)
          => \A p \in Cells(g) : Grid(g)[p].collapsed)
  /\ [][\A g \in Gens :
          (/\ frame[g].pc = "min"
           /\ frame[g].candidates = <<>>
           /\ ~frame[g].best.found
           /\ self[g].tileset # {})
          => /\ \A p \in Cells(g) : Grid(g)[p].collapsed
             /\ frame'[g].pc = "done"
             /\ frame'[g].result = "True"]_vars

\* the selector has just found no candidate, on the largest grid, in a run
\* whose tiles do not all fit together and in which two different tiles
\* were chosen
C23_Witness ==
  /\ frame[1].pc = "min"
  /\ frame[1].candidates = <<>>
  /\ ~frame[1].best.found
  /\ self[1].tileset # {}
  /\ self[1].width * self[1].height = MaxCells
  /\ ~AllFourSockets(self[1].tileset)
  /\ \E p \in Cells(1), q \in Cells(1) : Grid(1)[p].chosen # Grid(1)[q].chosen

\* an uncollapsed cell of g with exactly n possibilities, or with n or more
OpenWith(g, p, n) ==
  ~Grid(g)[p].collapsed /\ Cardinality(Grid(g)[p].possibilities) = n
OpenWithAtLeast(g, p, n) ==
  ~Grid(g)[p].collapsed /\ Cardinality(Grid(g)[p].possibilities) >= n

\* min() has looked at every candidate: its result is the cell at best.pos
Selected(g) ==
  frame[g].pc = "min" /\ frame[g].candidates = <<>> /\ frame[g].best.found

Built(g) == frame[g].pc # "new"

\* the coordinates (x, y) with 0 <= x < width and 0 <= y < height
Coordinates(width, height) ==
  {<<x, y>> : x \in 0..(width - 1), y \in 0..(height - 1)}

\* C25: once the generator is constructed, its grid maps exactly the
\* coordinates (x, y) with 0 <= x < width and 0 <= y < height, each to the
\* cell of that position; right after construction every cell is uncollapsed
\* with the full tile set; no step adds or removes a cell.
C25_GridCoordinatesFixed ==
  /\ [](\A g \in Gens :
          Built(g) =>
            /\ Cells(g) = Coordinates(self[g].width, self[g].height)
            /\ Cardinality(Cells(g)) = self[g].width * self[g].height
            /\ \A p \in Cells(g) : Grid(g)[p].position = p
            /\ frame[g].pc = "ready" =>
                 \A p \in Cells(g) :
                   /\ ~Grid(g)[p].collapsed
                   /\ Grid(g)[p].chosen = [symbol |-> "", sockets |-> {}, weight |-> 0]
                   /\ Grid(g)[p].possibilities = self[g].tileset
                   /\ Grid(g)[p].possibilities = args.tileset)
  /\ [][\A g \in Gens :
          Built(g) =>
            /\ DOMAIN self'[g].grid = Cells(g)
            /\ self'[g].width = self[g].width
            /\ self'[g].height = self[g].height]_vars

\* a run over a row of MaxCells cells, wider than high, in the middle of a
\* propagation that has narrowed a cell, with a cell collapsed
C25_Witness ==
  /\ Propagating(1)
  /\ self[1].width = MaxCells
  /\ self[1].height = 1
  /\ NCollapsed(1) >= 1
  /\ \E p \in Cells(1) :
       ~Grid(1)[p].collapsed /\ Grid(1)[p].possibilities # self[1].tileset

\* ---- grammar expander, step by step
\* a pass of the loop of expand that applied a production
Applied == Expanding /\ gx'.pc = "expand"

\* new is old with the nonterminal at i replaced by the sequence symbols
ReplacedAt(old, i, symbols, new) ==
  /\ Len(new) = Len(old) - 1 + Len(symbols)
  /\ \A j \in 1..(i - 1) : new[j] = old[j]
  /\ \A j \in 1..Len(symbols) : new[i - 1 + j] = symbols[j]
  /\ \A j \in (i + 1)..Len(old) : new[j - 1 + Len(symbols)] = old[j]

\* C26: every step of expand replaces the leftmost nonterminal of the
\* frontier with the symbols of one of that nonterminal's own productions,
\* leaving the tokens to its left and right as they are, and expand returns
\* only when the frontier holds no nonterminal.
C26_LeftmostDerivation ==
  [][/\ Applied =>
          \E i \in 1..Len(gx.tokens) :
            /\ gx.tokens[i] \in {"S", "X"}
            /\ \A j \in 1..(i - 1) : gx.tokens[j] \notin {"S", "X"}
            /\ gx.tokens[i] \in DOMAIN gx.grammar
            /\ \E k \in 1..Len(gx.grammar[gx.tokens[i]]) :
                 ReplacedAt(gx.tokens, i, gx.grammar[gx.tokens[i]][k].symbols,
                            gx'.tokens)
     /\ (Expanding /\ gx'.pc = "returned") =>
          /\ ~HasNonterminal(gx.tokens)
          /\ gx'.tokens = gx.tokens]_vars

\* S -> S S | a after two steps: the left S of the frontier S S was replaced
\* by a, the right one is left
C26_Witness ==
  /\ Expanding
  /\ gx.text = <<"S", "->", "S", "S", "|", "a">>
  /\ gx.steps = 2
  /\ gx.tokens = <<"a", "S">>

\* C27: expand ends in GenerationLimitError only with a nonterminal left in
\* the frontier: a frontier of terminals only is returned as text, never
\* reported as a limit error.
C27_LimitErrorOnlyUnresolved ==
  LimitError => HasNonterminal(gx.tokens)

\* C28: every cell that generate passes to _collapse_cell is uncollapsed and
\* has a possibility; _collapse_cell then does not return False: generate
\* goes on to _propagate with that cell collapsed, it does not return there.
C28_CollapseNeverFailsInGenerate ==
  /\ [](\A g \in Gens :
          Selected(g) =>
            /\ ~Grid(g)[frame[g].best.pos].collapsed
            /\ Grid(g)[frame[g].best.pos].possibilities # {})
  /\ [][\A g \in Gens :
          Selected(g) =>
            /\ frame'[g].pc = "propagate"
            /\ frame'[g].result # "False"
            /\ self'[g].grid[frame[g].best.pos].collapsed]_vars

\* the last open cell of the largest grid, narrowed by earlier propagations,
\* is about to be passed to _collapse_cell
C28_Witness ==
  /\ Selected(1)
  /\ self[1].width * self[1].height = MaxCells
  /\ NCollapsed(1) = MaxCells - 1
  /\ Grid(1)[frame[1].best.pos].possibilities # self[1].tileset

\* ---- can_connect across an edge
\* C29: can_connect is symmetric across a shared edge: a.can_connect(b, d)
\* holds iff b.can_connect(a, opposite of d) holds, for all tiles a, b and
\* directions d.
C29_CanConnectSymmetric ==
  (probe.called /\ probe.reversed) => (probe.result <=> probe.reverse)

\* both calls answered True for tiles with different sockets, each with a
\* socket the edge does not use
C29_Witness ==
  /\ probe.called /\ probe.reversed
  /\ probe.result /\ probe.reverse
  /\ probe.direction = "E"
  /\ probe.self_.sockets = {"E", "N"}
  /\ probe.other.sockets = {"W", "S"}

\* ---- grammar expander, the derivation forest
\* C30: at every iteration of expand, tokens and forest have the same length;
\* where tokens[i] is a nonterminal forest[i] is a Node labelled tokens[i]
\* that has no children, where it is a terminal forest[i] is that string; so
\* the assertion isinstance(node, Node) never fails.
C30_ForestMirrorsTokens ==
  /\ Expanding =>
       /\ Len(gx.forest) = Len(gx.tokens)
       /\ \A i \in 1..Len(gx.tokens) :
            IF gx.tokens[i] \in {"S", "X"}
            THEN /\ DOMAIN gx.forest[i] = {"node"}
                 /\ gx.forest[i].node \in 1..Len(gx.nodes)
                 /\ gx.nodes[gx.forest[i].node].label = gx.tokens[i]
                 /\ gx.nodes[gx.forest[i].node].children = "None"
            ELSE gx.forest[i] = [terminal |-> gx.tokens[i]]
  /\ Expanded => gx.error.raised # "AssertionError"

\* S -> a S S after one step: the frontier a S S holds a string and two
\* new Nodes, and the root has got its three children
C30_Witness ==
  /\ Expanding
  /\ gx.steps = 1
  /\ gx.text = <<"S", "->", "a", "S", "S">>
  /\ gx.tokens = <<"a", "S", "S">>
  /\ Len(gx.nodes) = 3
  /\ gx.nodes[1].children = gx.forest

\* the four positions around pos, by direction
Around(pos) ==
  [d \in Directions |->
     CASE d = "N" -> <<pos[1], pos[2] - 1>>
       [] d = "S" -> <<pos[1], pos[2] + 1>>
       [] d = "E" -> <<pos[1] + 1, pos[2]>>
       [] d = "W" -> <<pos[1] - 1, pos[2]>>]

\* a cell with a cell of the grid on each of its four sides
Interior(width, height, pos) ==
  /\ 0 < pos[1] /\ pos[1] < width - 1
  /\ 0 < pos[2] /\ pos[2] < height - 1

\* C31: _get_neighbors(p) returns exactly the positions inside the grid among
\* N=(x, y-1), S=(x, y+1), E=(x+1, y), W=(x-1, y), each once with its
\* direction (four of them for an interior cell), and the result is
\* edge-consistent: q is returned for p with direction d iff p is returned
\* for q with the opposite direction.
C31_NeighborsInGridAndEdgeConsistent ==
  /\ "p" \in nbr.called =>
       /\ Range(nbr.of_p) =
            {<<d, Around(nbr.p)[d]>> : d \in
               {e \in Directions :
                  Around(nbr.p)[e] \in Positions(nbr.width, nbr.height)}}
       /\ Len(nbr.of_p) = Cardinality(Range(nbr.of_p))
       /\ Interior(nbr.width, nbr.height, nbr.p) => Len(nbr.of_p) = 4
  /\ nbr.called = {"p", "q"} =>
       \A d \in Directions :
         <<d, nbr.q>> \in Range(nbr.of_p)
           <=> <<opposite[d], nbr.p>> \in Range(nbr.of_q)

\* the doctest's 3x3 grid: the centre has four neighbours, the cell above it
\* is returned with N and returns the centre with S
C31_Witness ==
  /\ nbr.called = {"p", "q"}
  /\ nbr.width = 3 /\ nbr.height = 3
  /\ nbr.p = <<1, 1>> /\ nbr.q = <<1, 0>>
  /\ Len(nbr.of_p) = 4
  /\ <<"N", nbr.q>> \in Range(nbr.of_p)
  /\ <<"S", nbr.p>> \in Range(nbr.of_q)

====
